---------------------------- MODULE Spec2Model ----------------------------
(***************************************************************************)
(* A model of the red-teaming scan driver for a Copilot Studio agent:      *)
(*   - targets/mcs_agent_callback.py : the target adapter (the async       *)
(*     callback the engine invokes with the conversation turns);           *)
(*   - red_team_scan.py : configuration loading, name parsing, target      *)
(*     construction and the single scan invocation of main.                *)
(*                                                                         *)
(* Python values are modelled as tagged records: Str(s) is the string s,   *)
(* None is Python's None.  An exception is modelled by its class name.     *)
(*                                                                         *)
(* A coroutine runs without interruption between two awaits, so an         *)
(* action is the code from one suspension point to the next.  The phases   *)
(* of an invocation of the callback are: NotStarted (not called yet),      *)
(* SessionOpening (inside the try block: building the settings and the     *)
(* client, awaiting start_conversation_async), Asking (awaiting            *)
(* ask_question_async), Succeeded and Failed (returned, from the try block *)
(* or from the handler), Raised (an exception left the callback).          *)
(***************************************************************************)
EXTENDS Naturals, Sequences, FiniteSets, TLC

VARIABLES
    \* ---- targets/mcs_agent_callback.py ----
    mcs_agent_config,   \* self.mcs_agent_config of the McsAgentCallbackTarget
    pc,                 \* pc[i]: where invocation i of mcs_agent_callback is
    messages,           \* messages[f]: the parameter `messages` in frame f
    latest_message,     \* latest_message[f]: the local of that name in frame f
    client,             \* client[f]: the local `client` in frame f (an index into clients; 0 = unbound)
    clients,            \* clients[i]: the McsCopilotClient object invocation i constructed, with the calls made on it
    agent_replies,      \* the activity lists the remote agent may answer with
    given,              \* given[i]: the turn sequences the engine handed to invocation i
    received,           \* received[i]: the activity lists ask_question_async returned to invocation i
    result,             \* result[i]: the values invocation i returned to its caller
    errors,             \* errors[i]: the steps of invocation i at which an exception was raised
    trace,              \* trace[i]: the phases invocation i has gone through
    \* ---- red_team_scan.py: main ----
    run_input,          \* the configuration file, environment and collaborators of this run
    main_pc,            \* "start", "scanning" (suspended at await red_team.scan) or "exit"
    oplog,              \* the operations main has executed, in order
    scan_calls,         \* how many times red_team.scan was invoked
    main_error,         \* what main reported when it ended without a result
    \* ---- red_team_scan.py: parse_attack_strategies ----
    strategy_strings,   \* the argument of parse_attack_strategies
    parsed              \* its outcome, or NotRun

vars == <<mcs_agent_config, pc, messages, latest_message, client, clients,
          agent_replies, given, received, result, errors, trace,
          run_input, main_pc, oplog, scan_calls, main_error,
          strategy_strings, parsed>>

adapterVars == <<mcs_agent_config, pc, messages, latest_message, client, clients,
                 agent_replies, given, received, result, errors, trace>>
mainVars    == <<run_input, main_pc, oplog, scan_calls, main_error>>
parseVars   == <<strategy_strings, parsed>>

(***************************************************************************)
(* Bounds                                                                  *)
(***************************************************************************)
MaxEvents      == 3     \* longest activity list the agent answers with
NumInvocations == 2     \* adapter invocations in flight at once
MaxStrategies  == 2     \* longest list of configured strategy names

(***************************************************************************)
(* Python values                                                           *)
(***************************************************************************)
None   == [t |-> "None"]
Str(s) == [t |-> "str", v |-> s]

Returned(v) == [raised |-> FALSE, val |-> v]
Raise(e)    == [raised |-> TRUE, exc |-> e]

Last(s) == s[Len(s)]


(***************************************************************************)
(* targets/mcs_agent_callback.py                                           *)
(***************************************************************************)

\* The fixed replies of the callback.
CannotMsg     == "I cannot provide a response to this request."
ErrorMsg      == "I encountered an error and couldn't process your request."
NoResponseMsg == "No response available."

\* ActivityTypes.message
ActivityTypes_message == "message"

\* The activities of the model: message activities with a text, an empty
\* text or no text at all, a typing indicator (no text) and a generic event
\* that carries a text.
Activities ==
    [type : {ActivityTypes_message}, text : {None, Str(""), Str("Hi"), Str(" there")}]
    \cup {[type |-> "typing", text |-> None], [type |-> "event", text |-> Str("zz")]}

RECURSIVE SeqsUpTo(_, _)
SeqsUpTo(S, n) ==
    IF n = 0 THEN {<<>>}
    ELSE LET shorter == SeqsUpTo(S, n - 1)
         IN  shorter \cup {Append(s, x) : s \in {t \in shorter : Len(t) = n - 1}, x \in S}

\* The exception classes the steps of the callback raise; every one of them
\* is a subclass of Exception.
Exception == {"ConnectionError", "PermissionError", "ValueError", "TimeoutError", "TypeError"}
BackendErrors == Exception \ {"TypeError"}

\* The conversation histories the engine calls the adapter with (the empty
\* one is outside the engine's protocol).
Turn(r, c) == [role |-> r, content |-> c]
TurnLists ==
    { <<>>,
      <<Turn("user", "Hello")>>,
      <<Turn("user", "Hello"), Turn("assistant", "Hi")>>,
      <<Turn("user", "Hello"), Turn("assistant", "Hi"), Turn("user", "Bye")>> }

\* McsAgentConfig, as create_mcs_agent_config builds it.
HeldConfig ==
    [tenant_id |-> "tenant", app_client_id |-> "app",
     environment_id |-> "env", agent_identifier |-> "agent"]

\* A call of the coroutine function gets a frame of its own: the locals of
\* invocation i live in frame i.
\* (SharedFrame: the locals kept in one place shared by all invocations, as
\* attributes of the target object would be; not what the code does.)
SharedFrame(i) == 1
Frame(i) == i

\* McsConnectionSettings(tenant_id=..., ...) from the held configuration.
McsConnectionSettings(cfg) ==
    [tenant_id |-> cfg.tenant_id, app_client_id |-> cfg.app_client_id,
     environment_id |-> cfg.environment_id, agent_identifier |-> cfg.agent_identifier]

\* McsCopilotClient(connection_settings=...): a new client object, owned by
\* the invocation that built it, with no call made on it yet.  The client
\* that invocation i builds is clients[i]; NoClient stands where none was built.
NoClient == [connection_settings |-> None, owner |-> 0, starts |-> <<>>, asks |-> <<>>]
McsCopilotClient(settings, i) ==
    [connection_settings |-> settings, owner |-> i, starts |-> <<>>, asks |-> <<>>]

\* "".join(activity.text for activity in activities
\*         if activity.type == ActivityTypes.message):
\* the texts are taken left to right; a text that is not a str makes join
\* raise TypeError.
RECURSIVE JoinFrom(_, _, _)
JoinFrom(activities, k, acc) ==
    IF k > Len(activities) THEN Returned(Str(acc))
    ELSE IF activities[k].type # ActivityTypes_message
         THEN JoinFrom(activities, k + 1, acc)
         ELSE IF activities[k].text.t # "str"
              THEN Raise("TypeError")
              ELSE JoinFrom(activities, k + 1, acc \o activities[k].text.v)

\* The join with the activities taken last to first (not what the code does).
JoinMessages_reversed(activities) ==
    JoinFrom([k \in 1..Len(activities) |-> activities[Len(activities) + 1 - k]], 1, "")
JoinMessages(activities) == JoinFrom(activities, 1, "")

\* if content is None or content == "": content = <fixed reply>
\* (IsNoneOrEmpty_noneOnly, FormattedResponse_userRole and
\* CaughtByExcept_notTimeout are variants the code does not have.)
IsNoneOrEmpty_noneOnly(content) == content = None
IsNoneOrEmpty(content) == content = None \/ content = Str("")

Normalize(content) == IF IsNoneOrEmpty(content) THEN Str(CannotMsg) ELSE content

\* formatted_response = {"content": content, "role": "assistant"}
FormattedResponse_userRole(content) == [content |-> content, role |-> "user"]
FormattedResponse(content) == [content |-> content, role |-> "assistant"]

\* except Exception as e: which exceptions the handler catches.
CaughtByExcept_notTimeout(e) == e \in Exception \ {"TimeoutError"}
CaughtByExcept(e) == e \in Exception

\* The handler's formatted_response.
ExceptResponse == [content |-> Str(ErrorMsg), role |-> "assistant"]

\* if formatted_response.get("content") is None: ... = "No response available."
FinalCheck(fr) ==
    IF fr.content = None THEN [fr EXCEPT !.content = Str(NoResponseMsg)] ELSE fr

\* return {"messages": [formatted_response]}
Envelope(fr) == [messages |-> <<FinalCheck(fr)>>]

\* The invocation returns v to its caller.
Return(i, v, phase) ==
    /\ pc' = [pc EXCEPT ![i] = phase]
    /\ result' = [result EXCEPT ![i] = Append(@, v)]

\* An exception e is raised at step `at` inside the try block of invocation
\* i, after it entered the phases `entered`: the handler turns it into the
\* fixed reply; an exception the handler does not catch leaves the callback.
RaisedInTry(i, e, at, entered) ==
    /\ errors' = [errors EXCEPT ![i] = Append(@, at)]
    /\ IF CaughtByExcept(e)
       THEN /\ Return(i, Envelope(ExceptResponse), "Failed")
            /\ trace' = [trace EXCEPT ![i] = @ \o entered \o <<"Failed">>]
       ELSE /\ pc' = [pc EXCEPT ![i] = "Raised"]
            /\ trace' = [trace EXCEPT ![i] = @ \o entered \o <<"Raised">>]
            /\ UNCHANGED result

\* The engine calls the callback with `turns`; the coroutine runs up to its
\* first suspension point, await client.start_conversation_async().
\* `built` is what building the settings and the client does: "ok", or the
\* exception one of the two constructors raises.
Invoke(i, turns, built) ==
    /\ pc[i] = "NotStarted"
    /\ given' = [given EXCEPT ![i] = Append(@, turns)]
    /\ messages' = [messages EXCEPT ![Frame(i)] = turns]
    /\ IF turns = <<>>
       THEN \* messages_list[-1] raises IndexError before the try block
            /\ pc' = [pc EXCEPT ![i] = "Raised"]
            /\ trace' = [trace EXCEPT ![i] = Append(@, "Raised")]
            /\ errors' = [errors EXCEPT ![i] = Append(@, "extract")]
            /\ UNCHANGED <<latest_message, client, clients, result>>
       ELSE /\ latest_message' = [latest_message EXCEPT ![Frame(i)] = Last(turns).content]
            /\ IF built # "ok"
               THEN /\ RaisedInTry(i, built, "construct", <<"SessionOpening">>)
                    /\ UNCHANGED <<client, clients>>
               ELSE /\ clients' = [clients EXCEPT ![i] =
                           [McsCopilotClient(McsConnectionSettings(mcs_agent_config), i)
                               EXCEPT !.starts = <<i>>]]
                    /\ client' = [client EXCEPT ![Frame(i)] = i]
                    /\ pc' = [pc EXCEPT ![i] = "SessionOpening"]
                    /\ trace' = [trace EXCEPT ![i] = Append(@, "SessionOpening")]
                    /\ UNCHANGED <<result, errors>>
    /\ UNCHANGED <<mcs_agent_config, agent_replies, received>>
    /\ UNCHANGED <<mainVars, parseVars>>

\* start_conversation_async completed without error: the coroutine resumes
\* and calls client.ask_question_async(latest_message), its second
\* suspension point.
StartReturns(i) ==
    /\ pc[i] = "SessionOpening"
    /\ clients' = [clients EXCEPT ![client[Frame(i)]].asks =
                       Append(@, [by |-> i, question |-> latest_message[Frame(i)]])]
    /\ pc' = [pc EXCEPT ![i] = "Asking"]
    /\ trace' = [trace EXCEPT ![i] = Append(@, "Asking")]
    /\ UNCHANGED <<mcs_agent_config, messages, latest_message, client,
                   agent_replies, given, received, result, errors>>
    /\ UNCHANGED <<mainVars, parseVars>>

\* start_conversation_async raised e: a retry of the call (not what the code does).
StartRaises_retry(i, e) ==
    /\ pc[i] = "SessionOpening"
    /\ Len(clients[client[Frame(i)]].starts) < 2
    /\ clients' = [clients EXCEPT ![client[Frame(i)]].starts = Append(@, i)]
    /\ errors' = [errors EXCEPT ![i] = Append(@, "start")]
    /\ UNCHANGED <<mcs_agent_config, pc, messages, latest_message, client,
                   agent_replies, given, received, result, trace>>
    /\ UNCHANGED <<mainVars, parseVars>>

\* start_conversation_async raised e: the error is logged and the question
\* asked all the same (not what the code does).
StartRaises_continues(i, e) ==
    /\ pc[i] = "SessionOpening"
    /\ errors' = [errors EXCEPT ![i] = Append(@, "start")]
    /\ clients' = [clients EXCEPT ![client[Frame(i)]].asks =
                       Append(@, [by |-> i, question |-> latest_message[Frame(i)]])]
    /\ pc' = [pc EXCEPT ![i] = "Asking"]
    /\ trace' = [trace EXCEPT ![i] = Append(@, "Asking")]
    /\ UNCHANGED <<mcs_agent_config, messages, latest_message, client,
                   agent_replies, given, received, result>>
    /\ UNCHANGED <<mainVars, parseVars>>

\* start_conversation_async raised e.
StartRaises(i, e) ==
    /\ pc[i] = "SessionOpening"
    /\ RaisedInTry(i, e, "start", <<>>)
    /\ UNCHANGED <<mcs_agent_config, messages, latest_message, client, clients,
                   agent_replies, given, received>>
    /\ UNCHANGED <<mainVars, parseVars>>

\* ask_question_async returned `activities`: the coroutine resumes, joins
\* the message texts, substitutes the fixed reply for an empty content and
\* returns.
AskReturns(i, activities) ==
    /\ pc[i] = "Asking"
    /\ received' = [received EXCEPT ![i] = Append(@, activities)]
    /\ LET content == JoinMessages(activities)
       IN  IF content.raised
           THEN RaisedInTry(i, content.exc, "join", <<>>)
           ELSE /\ Return(i, Envelope(FormattedResponse(Normalize(content.val))), "Succeeded")
                /\ trace' = [trace EXCEPT ![i] = Append(@, "Succeeded")]
                /\ UNCHANGED errors
    /\ UNCHANGED <<mcs_agent_config, messages, latest_message, client, clients,
                   agent_replies, given>>
    /\ UNCHANGED <<mainVars, parseVars>>

\* ask_question_async raised e.
AskRaises(i, e) ==
    /\ pc[i] = "Asking"
    /\ RaisedInTry(i, e, "ask", <<>>)
    /\ UNCHANGED <<mcs_agent_config, messages, latest_message, client, clients,
                   agent_replies, given, received>>
    /\ UNCHANGED <<mainVars, parseVars>>

(***************************************************************************)
(* red_team_scan.py: parse_risk_categories, parse_attack_strategies        *)
(***************************************************************************)

\* The members of the engine's AttackStrategy and RiskCategory enumerations
\* that the model uses.
AttackStrategyMembers == {"EASY", "MODERATE", "DIFFICULT", "Flip", "Base64"}
RiskCategoryMembers   == {"Violence", "HateUnfairness", "Sexual", "SelfHarm"}

\* Names that getattr finds on any enumeration class although they are no
\* members of it: attributes of the class object itself.
ClassAttributes == {"__doc__", "__members__", "__name__"}

\* str.upper() on the names of the model.
Upper(name) ==
    CASE name \in {"easy", "EASY"} -> "EASY"
      [] name = "Moderate"  -> "MODERATE"
      [] name = "DiFFicult" -> "DIFFICULT"
      [] name \in {"Flip", "flip"} -> "FLIP"
      [] name = "Base64" -> "BASE64"
      [] name = "__doc__" -> "__DOC__"
      [] name = "NoSuchStrategy" -> "NOSUCHSTRATEGY"
      [] OTHER -> name

\* getattr(cls, name) on an enumeration class with the given members: the
\* member of that name, else the class attribute of that name, else
\* AttributeError (whose message is the name).
Member(cls, name) == [enum |-> cls, name |-> name]
GetAttr(cls, members, name) ==
    IF name \in members THEN Returned(Member(cls, name))
    ELSE IF name \in ClassAttributes THEN Returned([attribute_of |-> cls, name |-> name])
    ELSE [raised |-> TRUE, exc |-> "AttributeError", name |-> name]

\* One iteration of the loop of parse_attack_strategies.
AttackStrategyOf(strategy_str) ==
    IF Upper(strategy_str) = "EASY" THEN Returned(Member("AttackStrategy", "EASY"))
    ELSE IF Upper(strategy_str) = "MODERATE" THEN Returned(Member("AttackStrategy", "MODERATE"))
    ELSE IF Upper(strategy_str) = "DIFFICULT" THEN Returned(Member("AttackStrategy", "DIFFICULT"))
    ELSE GetAttr("AttackStrategy", AttackStrategyMembers, strategy_str)

RECURSIVE ParseStrategiesFrom(_, _, _)
ParseStrategiesFrom(strategy_strings_, k, attack_strategies) ==
    IF k > Len(strategy_strings_) THEN Returned(attack_strategies)
    ELSE LET one == AttackStrategyOf(strategy_strings_[k])
         IN  IF one.raised THEN one
             ELSE ParseStrategiesFrom(strategy_strings_, k + 1, Append(attack_strategies, one.val))

parse_attack_strategies(strategy_strings_) == ParseStrategiesFrom(strategy_strings_, 1, <<>>)

RECURSIVE ParseCategoriesFrom(_, _, _)
ParseCategoriesFrom(category_strings, k, risk_categories) ==
    IF k > Len(category_strings) THEN Returned(risk_categories)
    ELSE LET one == GetAttr("RiskCategory", RiskCategoryMembers, category_strings[k])
         IN  IF one.raised THEN one
             ELSE ParseCategoriesFrom(category_strings, k + 1, Append(risk_categories, one.val))

parse_risk_categories(category_strings) == ParseCategoriesFrom(category_strings, 1, <<>>)

\* The strategy names a configuration may hold.
StrategyNames ==
    {"easy", "EASY", "Moderate", "DiFFicult", "Flip", "flip", "Base64", "__doc__",
     "NoSuchStrategy"}

NotRun == [raised |-> FALSE, not_run |-> TRUE]

\* A call of parse_attack_strategies on the configured names.
Parse ==
    /\ parsed = NotRun
    /\ parsed' = parse_attack_strategies(strategy_strings)
    /\ UNCHANGED <<strategy_strings, adapterVars, mainVars>>

(***************************************************************************)
(* red_team_scan.py: load_config, create_mcs_agent_config, create_target,  *)
(* create_red_team, run_red_team_scan, main                                *)
(***************************************************************************)

\* Python's truth value of an optional string: None and "" are false.
Truthy(v) == v # None /\ v # Str("")

Absent       == [present |-> FALSE]
Present(seq) == [present |-> TRUE, names |-> seq]

\* The "mcs_agent" sections a configuration may hold: complete, not there at
\* all, one key missing, one value empty.
McsSections ==
    { [tenant_id |-> Str("tenant"), app_client_id |-> Str("app"),
       environment_id |-> Str("env"), agent_identifier |-> Str("agent")],
      [tenant_id |-> None, app_client_id |-> None,
       environment_id |-> None, agent_identifier |-> None],
      [tenant_id |-> None, app_client_id |-> Str("app"),
       environment_id |-> Str("env"), agent_identifier |-> Str("agent")],
      [tenant_id |-> Str("tenant"), app_client_id |-> Str("app"),
       environment_id |-> Str("env"), agent_identifier |-> Str("")] }

\* The parsed configurations of the model (a key that is absent is None or
\* Absent).
ConfigData ==
    [ target_type       : {None, Str(""), Str("mcs_agent_callback"), Str("other")},
      project_endpoint  : {None, Str(""), Str("https://project")},
      risk_categories   : {Absent, Present(<<"Violence", "Sexual">>), Present(<<"violence">>),
                           Present(<<"__doc__">>)},
      attack_strategies : {Absent, Present(<<"easy", "Flip">>), Present(<<"flip">>),
                           Present(<<"__members__">>)},
      custom_prompts_path : {None, Str("prompts.json")},
      mcs_agent         : McsSections ]

\* What a run of main meets: the configuration file and the environment,
\* whether the custom prompts file exists, whether the credential and the
\* engine can be constructed.
RunInputs ==
    [ path_exists : BOOLEAN, env_set : BOOLEAN, json_valid : BOOLEAN,
      config_data : ConfigData, prompts_exist : BOOLEAN, red_team_ok : BOOLEAN ]

\* load_config: the file must exist, every ${VAR} must be set, the
\* substituted text must be JSON.
load_config(input) ==
    IF ~input.path_exists THEN Raise("FileNotFoundError")
    ELSE IF ~input.env_set THEN Raise("ValueError: Environment variable not found")
    ELSE IF ~input.json_valid THEN Raise("JSONDecodeError")
    ELSE Returned(input.config_data)

\* create_mcs_agent_config: None unless all four values are there and not empty.
create_mcs_agent_config(config_data) ==
    LET mcs_config == config_data.mcs_agent
    IN  IF ~(/\ Truthy(mcs_config.tenant_id) /\ Truthy(mcs_config.app_client_id)
             /\ Truthy(mcs_config.environment_id) /\ Truthy(mcs_config.agent_identifier))
        THEN None
        ELSE [t |-> "McsAgentConfig",
              tenant_id |-> mcs_config.tenant_id.v, app_client_id |-> mcs_config.app_client_id.v,
              environment_id |-> mcs_config.environment_id.v,
              agent_identifier |-> mcs_config.agent_identifier.v]

\* create_target
create_target(target_type, agent_config) ==
    IF target_type = Str("mcs_agent_callback")
    THEN IF agent_config = None
         THEN Raise("ValueError: MCS Agent config is required")
         ELSE Returned([callback_of |-> agent_config])
    ELSE Raise("ValueError: Unsupported target type")

\* create_red_team: the credential, then the engine in one of its two modes.
create_red_team(input, custom_prompts_path) ==
    IF ~input.red_team_ok THEN Raise("RedTeamConstructionError")
    ELSE IF Truthy(custom_prompts_path) /\ input.prompts_exist
         THEN Returned([mode |-> "custom_attack_seed_prompts"])
         ELSE Returned([mode |-> "risk_categories"])

\* How main ends without a scan: what it executed and what it reported.
Exit(ops, err) == [pc |-> "exit", oplog |-> ops, scan_calls |-> 0, error |-> err]

\* Steps 7 to 10 of main: the agent configuration, the engine, the target,
\* and the call of red_team.scan, at which main is suspended.
MainFromStep7(input, config_data, ops) ==
    LET agent_config == create_mcs_agent_config(config_data)
        path     == config_data.custom_prompts_path
        red_team == create_red_team(input, IF Truthy(path) THEN path ELSE None)
        ops8     == ops \o <<"create_mcs_agent_config", "DefaultAzureCredential", "RedTeam">>
        target   == create_target(config_data.target_type, agent_config)
    IN  IF red_team.raised THEN Exit(ops8, red_team.exc)
        ELSE IF target.raised THEN Exit(Append(ops8, "create_target"), target.exc)
        ELSE [pc |-> "scanning", oplog |-> ops8 \o <<"create_target", "scan">>,
              scan_calls |-> 1, error |-> "none"]

\* Step 6 of main: the category and strategy names, with their defaults.
MainFromStep6(input, config_data, ops) ==
    LET cats   == IF config_data.risk_categories.present
                  THEN config_data.risk_categories.names
                  ELSE <<"Violence", "HateUnfairness">>
        strats == IF config_data.attack_strategies.present
                  THEN config_data.attack_strategies.names
                  ELSE <<"Flip">>
        risk_categories   == parse_risk_categories(cats)
        attack_strategies == parse_attack_strategies(strats)
    IN  IF risk_categories.raised
        THEN Exit(Append(ops, "parse_risk_categories"), risk_categories.exc)
        ELSE IF attack_strategies.raised
        THEN Exit(ops \o <<"parse_risk_categories", "parse_attack_strategies">>,
                  attack_strategies.exc)
        ELSE MainFromStep7(input, config_data,
                           ops \o <<"parse_risk_categories", "parse_attack_strategies">>)

\* main, from its try block to its first suspension point or its end.
MainOutcome(input) ==
    LET loaded == load_config(input)
        ops2   == <<"load_dotenv", "load_config">>
    IN  IF loaded.raised THEN Exit(ops2, loaded.exc)
        ELSE IF ~Truthy(loaded.val.target_type)
        THEN Exit(ops2, "Target type not specified in config file")
        ELSE IF ~Truthy(loaded.val.project_endpoint)
        THEN Exit(ops2, "Azure AI Project endpoint is required")
        ELSE MainFromStep6(input, loaded.val, ops2)

Main ==
    /\ main_pc = "start"
    /\ LET out == MainOutcome(run_input)
       IN  /\ main_pc' = out.pc
           /\ oplog' = out.oplog
           /\ scan_calls' = scan_calls + out.scan_calls
           /\ main_error' = out.error
    /\ UNCHANGED <<run_input, adapterVars, parseVars>>

\* red_team.scan completes: main prints the result, or its handler reports
\* the exception the engine raised.
ScanCompletes(ok) ==
    /\ main_pc = "scanning"
    /\ main_pc' = "exit"
    /\ main_error' = IF ok THEN "none" ELSE "ScanError"
    /\ UNCHANGED <<run_input, oplog, scan_calls, adapterVars, parseVars>>

(***************************************************************************)
(* Specifications                                                          *)
(***************************************************************************)

\* A run input with which main reaches the scan.
GoodInput ==
    [ path_exists |-> TRUE, env_set |-> TRUE, json_valid |-> TRUE,
      config_data |->
         [ target_type |-> Str("mcs_agent_callback"), project_endpoint |-> Str("https://project"),
           risk_categories |-> Absent, attack_strategies |-> Present(<<"easy", "Flip">>),
           custom_prompts_path |-> None,
           mcs_agent |-> [tenant_id |-> Str("tenant"), app_client_id |-> Str("app"),
                          environment_id |-> Str("env"), agent_identifier |-> Str("agent")] ],
      prompts_exist |-> FALSE, red_team_ok |-> TRUE ]

\* main is suspended in the scan of GoodInput: the engine is running.
MainScanning ==
    /\ run_input = GoodInput
    /\ main_pc = MainOutcome(GoodInput).pc
    /\ oplog = MainOutcome(GoodInput).oplog
    /\ scan_calls = MainOutcome(GoodInput).scan_calls
    /\ main_error = "none"

ParseIdle ==
    /\ strategy_strings = <<>>
    /\ parsed = NotRun

\* n invocations of the callback are about to be made on one target.
AdapterInit(n, replies) ==
    /\ mcs_agent_config = HeldConfig
    /\ pc = [i \in 1..n |-> "NotStarted"]
    /\ messages = [i \in 1..n |-> <<>>]
    /\ latest_message = [i \in 1..n |-> ""]
    /\ client = [i \in 1..n |-> 0]
    /\ clients = [i \in 1..n |-> NoClient]
    /\ agent_replies = replies
    /\ given = [i \in 1..n |-> <<>>]
    /\ received = [i \in 1..n |-> <<>>]
    /\ result = [i \in 1..n |-> <<>>]
    /\ errors = [i \in 1..n |-> <<>>]
    /\ trace = [i \in 1..n |-> <<"NotStarted">>]

\* The steps of invocation i.
AdapterStep(i) ==
    \/ \E turns \in TurnLists, built \in {"ok"} \cup BackendErrors : Invoke(i, turns, built)
    \/ StartReturns(i)
    \/ \E e \in BackendErrors : StartRaises(i, e)
    \/ \E activities \in agent_replies : AskReturns(i, activities)
    \/ \E e \in BackendErrors : AskRaises(i, e)

\* One invocation, answered with any activity list of up to MaxEvents activities.
Init == AdapterInit(1, SeqsUpTo(Activities, MaxEvents)) /\ MainScanning /\ ParseIdle
Next == AdapterStep(1)
Spec == Init /\ [][Next]_vars

\* NumInvocations invocations in flight at once, answered from a short list
\* of replies; every backend call that was issued completes or raises.
ScriptedReplies ==
    { <<>>,
      <<[type |-> ActivityTypes_message, text |-> Str("Hi")]>>,
      <<[type |-> ActivityTypes_message, text |-> None]>> }

InitConcurrent == AdapterInit(NumInvocations, ScriptedReplies) /\ MainScanning /\ ParseIdle
BackendCompletes(i) ==
    \/ StartReturns(i)
    \/ \E e \in BackendErrors : StartRaises(i, e)
    \/ \E activities \in agent_replies : AskReturns(i, activities)
    \/ \E e \in BackendErrors : AskRaises(i, e)
NextConcurrent == \E i \in 1..NumInvocations : AdapterStep(i)
SpecConcurrent ==
    /\ InitConcurrent
    /\ [][NextConcurrent]_vars
    /\ \A i \in 1..NumInvocations : WF_vars(BackendCompletes(i))

\* A run of main on any run input.
InitMain ==
    /\ AdapterInit(0, {})
    /\ ParseIdle
    /\ run_input \in RunInputs
    /\ main_pc = "start"
    /\ oplog = <<>>
    /\ scan_calls = 0
    /\ main_error = "none"
NextMain ==
    \/ Main
    \/ \E ok \in BOOLEAN : ScanCompletes(ok)
SpecMain == InitMain /\ [][NextMain]_vars

\* parse_attack_strategies on any list of up to MaxStrategies names.
InitParse ==
    /\ AdapterInit(0, {})
    /\ run_input = GoodInput
    /\ main_pc = "start"
    /\ oplog = <<>>
    /\ scan_calls = 0
    /\ main_error = "none"
    /\ strategy_strings \in SeqsUpTo(StrategyNames, MaxStrategies)
    /\ parsed = NotRun
NextParse == Parse
SpecParse == InitParse /\ [][NextParse]_vars

(***************************************************************************)
(* Properties                                                              *)
(***************************************************************************)

\* The turn sequence invocation i was called with is not empty.
CalledWithTurns(i) == given[i] # <<>> /\ given[i][1] # <<>>

\* The activity list ask_question_async returned to invocation i, if any.
AskSucceeded(i) == received[i] # <<>>

IsMessage(a) == a.type = "message"
MessageTextsAreStrings(acts) ==
    \A k \in 1..Len(acts) : IsMessage(acts[k]) => acts[k].text.t = "str"
HasMessage(acts) == \E k \in 1..Len(acts) : IsMessage(acts[k])

\* The texts of the message activities of acts, concatenated in the order
\* of acts (for acts whose message texts are strings).
RECURSIVE ConcatTexts(_)
ConcatTexts(acts) ==
    IF acts = <<>> THEN ""
    ELSE (IF IsMessage(Head(acts)) THEN Head(acts).text.v ELSE "") \o ConcatTexts(Tail(acts))

Reply(text) == [messages |-> <<[role |-> "assistant", content |-> Str(text)]>>]

\* C1: whenever a step of an invocation called with a non-empty turn
\* sequence raised an error (building the settings or the client, the
\* session open, the ask, the join of the texts), the invocation has
\* returned the reply {assistant, "I encountered an error and couldn't
\* process your request."} and no exception has left the callback.
C1_ErrorBecomesFallback ==
    \A i \in DOMAIN pc :
        (CalledWithTurns(i) /\ errors[i] # <<>>) =>
            /\ pc[i] = "Failed"
            /\ result[i] = <<Reply("I encountered an error and couldn't process your request.")>>

C1_Witness ==
    \E i \in DOMAIN pc :
        /\ CalledWithTurns(i)
        /\ errors[i] = <<"join">>
        /\ result[i] = <<Reply(ErrorMsg)>>

\* C2: every value an invocation returned is an envelope of exactly one
\* message whose role is "assistant" and whose content is a string, never
\* None: the concatenated agent text or one of the three fixed replies.
C2_ReplyEnvelope ==
    \A i \in DOMAIN pc : \A k \in 1..Len(result[i]) :
        LET v == result[i][k]
        IN  /\ DOMAIN v = {"messages"}
            /\ Len(v.messages) = 1
            /\ DOMAIN v.messages[1] = {"role", "content"}
            /\ v.messages[1].role = "assistant"
            /\ v.messages[1].content # None
            /\ v.messages[1].content.t = "str"
            /\ v.messages[1].content.v \in
                  {"I cannot provide a response to this request.",
                   "I encountered an error and couldn't process your request.",
                   "No response available."}
                  \cup {ConcatTexts(received[i][j]) :
                           j \in {n \in 1..Len(received[i]) : MessageTextsAreStrings(received[i][n])}}

C2_Witness ==
    \E i \in DOMAIN pc :
        /\ pc[i] = "Succeeded"
        /\ result[i] = <<Reply("Hi there")>>

\* C3 as stated: when the session open and the ask both succeed and the
\* returned activities include at least one message activity, the reply is
\* {assistant, the concatenation of the message texts in order received}.
C3_Original ==
    \A i \in DOMAIN pc :
        (/\ CalledWithTurns(i) /\ AskSucceeded(i)
         /\ HasMessage(received[i][1]) /\ MessageTextsAreStrings(received[i][1])) =>
            result[i] = <<Reply(ConcatTexts(received[i][1]))>>

\* C3, amended: the same, provided every message text is a string and the
\* concatenation is not empty; activities of other types add nothing and do
\* not change the order.
C3_ConcatInOrder ==
    \A i \in DOMAIN pc :
        (/\ CalledWithTurns(i) /\ AskSucceeded(i)
         /\ HasMessage(received[i][1]) /\ MessageTextsAreStrings(received[i][1])
         /\ ConcatTexts(received[i][1]) # "") =>
            result[i] = <<Reply(ConcatTexts(received[i][1]))>>

C3_Witness ==
    \E i \in DOMAIN pc :
        /\ AskSucceeded(i)
        /\ received[i][1] = << [type |-> "message", text |-> Str("Hi")],
                               [type |-> "event", text |-> Str("zz")],
                               [type |-> "message", text |-> Str(" there")] >>
        /\ result[i] = <<Reply("Hi there")>>

\* C4: when the session open and the ask both succeed and the message
\* texts concatenate to the empty string (no activity, no message activity,
\* or only empty message texts), the reply is {assistant, "I cannot provide
\* a response to this request."}.
C4_EmptyBecomesCannot ==
    \A i \in DOMAIN pc :
        (/\ CalledWithTurns(i) /\ AskSucceeded(i)
         /\ MessageTextsAreStrings(received[i][1])
         /\ ConcatTexts(received[i][1]) = "") =>
            result[i] = <<Reply("I cannot provide a response to this request.")>>

C4_Witness ==
    \E i \in DOMAIN pc :
        /\ AskSucceeded(i)
        /\ received[i][1] = << [type |-> "typing", text |-> None],
                               [type |-> "message", text |-> Str("")] >>
        /\ result[i] = <<Reply(CannotMsg)>>

\* The state machine of an invocation.
PhaseEdges ==
    { <<"NotStarted", "SessionOpening">>, <<"SessionOpening", "Asking">>,
      <<"SessionOpening", "Failed">>, <<"Asking", "Succeeded">>, <<"Asking", "Failed">> }
FollowsStateMachine(t) ==
    /\ t[1] = "NotStarted"
    /\ \A k \in 1..(Len(t) - 1) : <<t[k], t[k + 1]>> \in PhaseEdges
InSeq(x, sq) == \E k \in 1..Len(sq) : sq[k] = x

\* The calls of start_conversation_async and of ask_question_async that
\* invocation i made, on any client.
StartCallsBy(i) ==
    UNION { {<<c, k>> : k \in {n \in 1..Len(clients[c].starts) : clients[c].starts[n] = i}} :
            c \in DOMAIN clients }
AskCallsBy(i) ==
    UNION { {<<c, k>> : k \in {n \in 1..Len(clients[c].asks) : clients[c].asks[n].by = i}} :
            c \in DOMAIN clients }

C5_Safety ==
    \A i \in DOMAIN pc :
        /\ CalledWithTurns(i) =>
              /\ FollowsStateMachine(trace[i])
              /\ pc[i] = Last(trace[i])
              /\ pc[i] # "Raised"
        /\ (InSeq("Asking", trace[i]) \/ AskCallsBy(i) # {}) =>
              /\ InSeq("SessionOpening", trace[i])
              /\ ~InSeq("construct", errors[i]) /\ ~InSeq("start", errors[i])
              /\ clients[i].starts = <<i>>
        /\ Len(result[i]) = IF pc[i] \in {"Succeeded", "Failed"} THEN 1 ELSE 0

\* C5: an invocation called with a non-empty turn sequence goes NotStarted,
\* SessionOpening, Asking, then Succeeded or Failed; the question is sent
\* only after its own session open completed without error; Failed is
\* entered from SessionOpening or Asking and is never an exception leaving
\* the callback; an invocation returns one reply when it reaches Succeeded
\* or Failed and none before; and, every backend call completing or
\* raising, an invocation that is waiting eventually reaches one of the two.
C5_StateMachine ==
    /\ []C5_Safety
    /\ \A i \in 1..NumInvocations :
          (pc[i] \in {"SessionOpening", "Asking"}) ~> (pc[i] \in {"Succeeded", "Failed"})

C5_Witness ==
    \E i, j \in DOMAIN pc :
        /\ trace[i] = <<"NotStarted", "SessionOpening", "Asking", "Succeeded">>
        /\ trace[j] = <<"NotStarted", "SessionOpening", "Failed">>
        /\ errors[j] = <<"start">>
        /\ Len(result[i]) = 1 /\ Len(result[j]) = 1

\* C6: with any number of invocations in flight and any interleaving, every
\* call on a client is made by the invocation that built it, the question
\* asked is the content of the last turn that invocation was given, a reply
\* is built from the activities returned to that invocation alone, and the
\* held configuration keeps its four values.
C6_Isolation ==
    /\ mcs_agent_config =
          [tenant_id |-> "tenant", app_client_id |-> "app",
           environment_id |-> "env", agent_identifier |-> "agent"]
    /\ \A c \in DOMAIN clients :
          /\ \A k \in 1..Len(clients[c].starts) : clients[c].starts[k] = clients[c].owner
          /\ \A k \in 1..Len(clients[c].asks) :
                /\ clients[c].asks[k].by = clients[c].owner
                /\ CalledWithTurns(clients[c].asks[k].by)
                /\ clients[c].asks[k].question = Last(given[clients[c].asks[k].by][1]).content
          /\ clients[c].owner # 0 =>
                /\ clients[c].owner = c
                /\ clients[c].connection_settings = mcs_agent_config
    /\ \A i \in DOMAIN pc :
          /\ Len(received[i]) <= 1
          /\ pc[i] = "Succeeded" =>
                /\ AskSucceeded(i) /\ MessageTextsAreStrings(received[i][1])
                /\ result[i] \in {<<Reply(ConcatTexts(received[i][1]))>>, <<Reply(CannotMsg)>>}

C6_Witness ==
    /\ Cardinality(DOMAIN pc) >= 2
    /\ pc[1] = "Asking" /\ pc[2] = "Succeeded"
    /\ clients[1].asks = <<[by |-> 1, question |-> "Hello"]>>
    /\ clients[2].asks = <<[by |-> 2, question |-> "Bye"]>>
    /\ result[2] = <<Reply("Hi")>>

Finished(i) == pc[i] \in {"Succeeded", "Failed", "Raised"}

\* Every call on a client was made by the invocation that built it.
NoClientShared ==
    \A c \in DOMAIN clients :
        /\ \A k \in 1..Len(clients[c].starts) : clients[c].starts[k] = c
        /\ \A k \in 1..Len(clients[c].asks) : clients[c].asks[k].by = c
        /\ clients[c].owner \in {0, c}

\* C9 as stated: every invocation (called with turns) builds its own client
\* from the held configuration, calls start_conversation_async exactly once
\* and ask_question_async at most once on it, retries neither, and no client
\* is used by another invocation.
C9_Original ==
    /\ NoClientShared
    /\ \A i \in DOMAIN pc :
          (CalledWithTurns(i) /\ Finished(i)) =>
              /\ clients[i].owner = i
              /\ clients[i].connection_settings = mcs_agent_config
              /\ Cardinality(StartCallsBy(i)) = 1
              /\ Cardinality(AskCallsBy(i)) <= 1

\* C9, amended: an invocation calls start_conversation_async at most once
\* and ask_question_async at most once, each on the client it built itself
\* from the held configuration; it calls start_conversation_async exactly
\* once if building the settings and the client raised nothing, and makes no
\* call at all otherwise; after a call failed it makes no further call (at
\* most one error per invocation, no ask after a failed open); no client is
\* used by another invocation.
C9_NoRetryNoReuse ==
    /\ NoClientShared
    /\ \A i \in DOMAIN pc :
          /\ Cardinality(StartCallsBy(i)) <= 1
          /\ Cardinality(AskCallsBy(i)) <= 1
          /\ Len(errors[i]) <= 1
          /\ InSeq("start", errors[i]) => AskCallsBy(i) = {}
          /\ (CalledWithTurns(i) /\ ~InSeq("construct", errors[i])) =>
                /\ clients[i].owner = i
                /\ clients[i].connection_settings = mcs_agent_config
                /\ clients[i].starts = <<i>>
          /\ (~CalledWithTurns(i) \/ InSeq("construct", errors[i])) =>
                /\ clients[i] = NoClient
                /\ StartCallsBy(i) = {} /\ AskCallsBy(i) = {}

C9_Witness ==
    \E i, j \in DOMAIN pc :
        /\ i # j
        /\ pc[i] = "Failed" /\ errors[i] = <<"start">>
        /\ clients[i].starts = <<i>> /\ clients[i].asks = <<>>
        /\ pc[j] = "Failed" /\ errors[j] = <<"construct">>
        /\ clients[j] = NoClient

\* What the configuration of this run says, in the terms of the claims.
IsTier(name) == Upper(name) \in {"EASY", "MODERATE", "DIFFICULT"}
KnownStrategy(name) == IsTier(name) \/ name \in AttackStrategyMembers
KnownCategory(name) == name \in RiskCategoryMembers
ConfiguredCategories(cfg) ==
    IF cfg.risk_categories.present THEN cfg.risk_categories.names
    ELSE <<"Violence", "HateUnfairness">>
ConfiguredStrategies(cfg) ==
    IF cfg.attack_strategies.present THEN cfg.attack_strategies.names ELSE <<"Flip">>
ConfigLoads(input) == input.path_exists /\ input.env_set /\ input.json_valid
NamesKnown(cfg) ==
    /\ \A k \in 1..Len(ConfiguredCategories(cfg)) : KnownCategory(ConfiguredCategories(cfg)[k])
    /\ \A k \in 1..Len(ConfiguredStrategies(cfg)) : KnownStrategy(ConfiguredStrategies(cfg)[k])
AgentFieldsComplete(cfg) ==
    \A f \in {"tenant_id", "app_client_id", "environment_id", "agent_identifier"} :
        cfg.mcs_agent[f] \notin {None, Str("")}
TargetConstructs(cfg) ==
    cfg.target_type = Str("mcs_agent_callback") /\ AgentFieldsComplete(cfg)
RequiredFieldsPresent(cfg) ==
    cfg.target_type \notin {None, Str("")} /\ cfg.project_endpoint \notin {None, Str("")}
EverythingSucceeds(input) ==
    /\ ConfigLoads(input)
    /\ RequiredFieldsPresent(input.config_data)
    /\ NamesKnown(input.config_data)
    /\ input.red_team_ok
    /\ TargetConstructs(input.config_data)

\* C7: in every run of main the scan is invoked at most once: exactly once
\* when loading, validation, the parsing of the names, the engine and the
\* target all succeed, and never when the configuration file is missing, an
\* environment variable is unset, the text is not JSON, the target type or
\* the endpoint is missing, a category or strategy name is unknown, or the
\* target cannot be constructed.
C7_ScanOnceOrNever ==
    /\ scan_calls <= 1
    /\ main_pc # "start" =>
          /\ EverythingSucceeds(run_input) => scan_calls = 1
          /\ (\/ ~ConfigLoads(run_input)
              \/ ~RequiredFieldsPresent(run_input.config_data)
              \/ ~NamesKnown(run_input.config_data)
              \/ ~TargetConstructs(run_input.config_data)) => scan_calls = 0

\* C8: parse_attack_strategies maps the names to engine strategies of the
\* same length and order (a tier name whatever its case, any other name to
\* the member of exactly that name), and fails, naming the name, when a
\* name is neither.
ExpectedStrategy(name) ==
    IF IsTier(name) THEN [enum |-> "AttackStrategy", name |-> Upper(name)]
    ELSE [enum |-> "AttackStrategy", name |-> name]
FirstUnknown(names) ==
    names[CHOOSE k \in 1..Len(names) :
              /\ ~KnownStrategy(names[k])
              /\ \A j \in 1..(k - 1) : KnownStrategy(names[j])]
C8_ParseStrategies ==
    parsed # NotRun =>
        IF \A k \in 1..Len(strategy_strings) : KnownStrategy(strategy_strings[k])
        THEN /\ ~parsed.raised
             /\ parsed.val = [k \in 1..Len(strategy_strings) |-> ExpectedStrategy(strategy_strings[k])]
        ELSE /\ parsed.raised
             /\ parsed.name = FirstUnknown(strategy_strings)

\* C10: when the target cannot be constructed (unsupported type, or one of
\* the four agent fields missing or empty), create_target raises before main
\* has executed any operation that can reach the network (the credential and
\* engine construction, the scan), and the scan is never invoked.
NetworkOps == {"DefaultAzureCredential", "RedTeam", "scan"}
C10_TargetErrorBeforeNetwork ==
    (main_pc = "exit" /\ Len(oplog) > 0 /\ Last(oplog) = "create_target") =>
        /\ \A k \in 1..Len(oplog) : oplog[k] \notin NetworkOps
        /\ scan_calls = 0

=============================================================================
